---- MODULE Spec2Model ----
(***************************************************************************)
(* A model of cloudfiles/container.py: one Container handle over a         *)
(* connection collaborator.  Python values are modelled as follows.        *)
(*   - an optional value is a sequence of length 0 (None) or 1 (Some(x)); *)
(*   - a str that the code inspects (names, header names, header values,   *)
(*     response bodies) is a sequence of one-character strings;            *)
(*   - an opaque str (HTTP reason, method, dict key) is a TLA+ string.     *)
(* Every method of Container is one action: it draws its arguments and the *)
(* response of the connection from small sets and records in `last` what   *)
(* the caller observed (return value or exception, requests issued).       *)
(***************************************************************************)
EXTENDS Integers, Sequences, FiniteSets, TLC

VARIABLES
    cdn_enabled,  \* conn.cdn_enabled, fixed for the life of the connection
    exists,       \* TRUE once Container.__init__ has returned
    self,         \* the Container's attributes
    unread,       \* channels on which a response was handed out and never read()
    last          \* the caller's view of the most recent call

vars == <<cdn_enabled, exists, self, unread, last>>

----------------------------------------------------------------------------
(* Python values *)

None == <<>>
Some(x) == <<x>>

\* bool(x) for x an optional str: None and '' are falsy
Truthy(o) == o # None /\ o[1] # <<>>

\* a or b
PyOr(a, b) == IF Truthy(a) THEN a ELSE b

UpperChars == <<"A","B","C","D","E","F","G","H","I","J","K","L","M",
                "N","O","P","Q","R","S","T","U","V","W","X","Y","Z">>
LowerChars == <<"a","b","c","d","e","f","g","h","i","j","k","l","m",
                "n","o","p","q","r","s","t","u","v","w","x","y","z">>

\* the characters of the strs the model lowers
Chars ==
    {UpperChars[i] : i \in DOMAIN UpperChars}
      \cup {LowerChars[i] : i \in DOMAIN LowerChars} \cup {"-"}

LowerChar ==
    [c \in Chars |->
       IF \E i \in DOMAIN UpperChars : UpperChars[i] = c
       THEN LowerChars[CHOOSE i \in DOMAIN UpperChars : UpperChars[i] = c]
       ELSE c]

\* str.lower()
Lower(s) == [i \in DOMAIN s |-> LowerChar[s[i]]]

DigitChars == <<"0","1","2","3","4","5","6","7","8","9">>

IsDigit(c) == \E i \in DOMAIN DigitChars : DigitChars[i] = c
DigitVal(c) == (CHOOSE i \in DOMAIN DigitChars : DigitChars[i] = c) - 1

RECURSIVE DigitsVal(_)
DigitsVal(s) ==
    IF s = <<>> THEN 0
    ELSE 10 * DigitsVal(SubSeq(s, 1, Len(s) - 1)) + DigitVal(s[Len(s)])

\* int(s) for a str of decimal digits with an optional sign; None stands for
\* the ValueError int() raises on anything else
ParseInt(s) ==
    LET body == IF s # <<>> /\ s[1] \in {"-", "+"} THEN Tail(s) ELSE s
    IN  IF body = <<>> \/ \E i \in DOMAIN body : ~IsDigit(body[i])
        THEN None
        ELSE IF s[1] = "-" THEN Some(0 - DigitsVal(body)) ELSE Some(DigitsVal(body))

RECURSIVE NatStr(_)
NatStr(n) ==
    IF n < 10 THEN <<DigitChars[n + 1]>>
    ELSE NatStr(n \div 10) \o <<DigitChars[(n % 10) + 1]>>

\* str(n) for an int n
StrOfInt(n) == IF n < 0 THEN <<"-">> \o NatStr(0 - n) ELSE NatStr(n)

RECURSIVE SplitFrom(_, _)
SplitFrom(s, cur) ==
    IF s = <<>> THEN (IF cur = <<>> THEN <<>> ELSE <<cur>>)
    ELSE IF Head(s) = "\n" THEN <<cur>> \o SplitFrom(Tail(s), <<>>)
    ELSE SplitFrom(Tail(s), Append(cur, Head(s)))

\* str.splitlines() on bodies whose only line terminator is '\n'
SplitLines(s) == SplitFrom(s, <<>>)

----------------------------------------------------------------------------
(* Bounds and input sets *)

MaxHdrs == 2

S_a == <<"a">>
S_b == <<"b">>
S_r == <<"r">>
S_u == <<"u">>
S_o == <<"o">>
S_x == <<"x">>
S_60 == <<"6","0">>
S_True == <<"T","r","u","e">>
S_False == <<"F","a","l","s","e">>

\* names offered to __init__ and to the name setter
NameArgs == {None, Some(<<>>), Some(S_a), Some(<<"a","/">>)}

\* (count, size) offered to __init__
CountSizeArgs == {<<Some(2), Some(5)>>}

H_XCdnUri == <<"X","-","C","D","N","-","U","R","I">>
H_x_cdn_uri == <<"x","-","c","d","n","-","u","r","i">>
H_XTtl == <<"X","-","T","T","L">>
H_x_ttl == <<"x","-","t","t","l">>
H_x_user_agent_acl ==
    <<"x","-","u","s","e","r","-","a","g","e","n","t","-","a","c","l">>
H_XUserAgentAcl ==
    <<"X","-","U","s","e","r","-","A","g","e","n","t","-","A","C","L">>
H_x_referrer_acl == <<"x","-","r","e","f","e","r","r","e","r","-","a","c","l">>
H_XReferrerAcl == <<"X","-","R","e","f","e","r","r","e","r","-","A","C","L">>

\* (name, value) pairs a response's getheaders() may hold
HeaderPairs ==
    { <<H_XCdnUri, S_u>>, <<H_x_cdn_uri, <<>> >>,
      <<H_XTtl, S_60>>, <<H_x_ttl, S_x>>,
      <<H_XUserAgentAcl, S_a>>, <<H_XReferrerAcl, S_r>> }

HeaderLists == UNION { [1..n -> HeaderPairs] : n \in 0..MaxHdrs }

\* (status, reason) of a response
StatusLines ==
    { <<199, "Early">>, <<200, "OK">>, <<299, "OK">>, <<300, "Multiple Choices">> }

\* responses to the HEAD of __init__
Responses ==
    { [status |-> sl[1], reason |-> sl[2], headers |-> h] :
        sl \in StatusLines, h \in HeaderLists }

\* responses to the PUT and POST of make_public and make_private
UpdateHeaderPairs == { <<H_XCdnUri, S_u>>, <<H_x_ttl, S_60>> }

UpdateHeaderLists == UNION { [1..n -> UpdateHeaderPairs] : n \in 0..MaxHdrs }

UpdateResponses ==
    { [status |-> sl[1], reason |-> sl[2], headers |-> h] :
        sl \in StatusLines, h \in UpdateHeaderLists }

\* responses of the storage endpoint: only status, reason and body are used
Bodies == { <<>>, <<"a","\n","b","\n">> }

StorageResponses ==
    { [status |-> sl[1], reason |-> sl[2], body |-> b] :
        sl \in StatusLines, b \in Bodies }

TtlArgs == {7, 3600}
AgentAclArgs == {None, Some(S_b)}
RefererAclArgs == {None, Some(<<>>)}

\* query parameters of list_objects, a dict as a set of (key, value) pairs
ParmArgs == { {<<"limit", "1">>} }

\* object_name of delete_object: a str (or None), or an Object with a name
ObjectArgs ==
    { [is_object |-> FALSE, value |-> None],
      [is_object |-> FALSE, value |-> Some(<<>>)],
      [is_object |-> FALSE, value |-> Some(S_o)],
      [is_object |-> TRUE,  value |-> [name |-> Some(S_o)]] }

----------------------------------------------------------------------------
(* What a call hands back to its caller *)

\* the attributes of a Container before __init__ has assigned any
BlankSelf ==
    [ name |-> None, object_count |-> None, size_used |-> None,
      cdn_uri |-> None, cdn_ttl |-> None,
      cdn_agent_acl |-> None, cdn_referer_acl |-> None ]

\* a call of conn.cdn_request / conn.make_request
Request(chan, method, path, hdrs, parms) ==
    [ chan |-> chan, method |-> method, path |-> path, hdrs |-> hdrs,
      parms |-> parms ]

\* the status line of the response a call received
StatusLine(resp) == Some(<<resp.status, resp.reason>>)

\* the method returned `ret`
Returned(s, ret, reqs, resp, left_unread) ==
    [ self |-> s, outcome |-> "return", exc |-> "", exc_args |-> <<>>,
      ret |-> ret, reqs |-> reqs, resp |-> resp, left_unread |-> left_unread ]

\* the method raised exc(*exc_args)
Raised(s, exc, exc_args, reqs, resp, left_unread) ==
    [ self |-> s, outcome |-> "raise", exc |-> exc, exc_args |-> exc_args,
      ret |-> None, reqs |-> reqs, resp |-> resp, left_unread |-> left_unread ]

\* a dict with d[k] = v assigned
DictSet(d, k, v) == [x \in DOMAIN d \cup {k} |-> IF x = k THEN v ELSE d[x]]

NoDict == [x \in {} |-> None]

----------------------------------------------------------------------------
(* The status tests of the three kinds of request *)

\* line 77: the metadata fetch reads the headers of a 2xx response
FetchSucceeded(status) == (status >= 200) /\ (status < 300)

\* line 116: make_public raises on this
MakePublicFailed(status) == (status < 200) \/ (status >= 300)

\* line 135: make_private raises on this
MakePrivateFailed(status) == (status < 200) \/ (status >= 300)

\* line 217: list_objects raises on this
ListFailed(status) == (status < 200) \/ (status > 299)

\* delete_object taking 300 for a success
DeleteFailed_Above300(status) == (status < 200) \/ (status > 300)

\* line 241: delete_object raises on this
DeleteFailed(status) == (status < 200) \/ (status > 299)

----------------------------------------------------------------------------
(* Container *)

\* '/' in name, for a str name
HasSlash(name) == name # None /\ \E i \in DOMAIN name[1] : name[1][i] = "/"

\* __set_name: the setter of the name property
set_name(s, name) ==
    IF HasSlash(name)
    THEN Raised(s, "InvalidContainerName", <<name>>, <<>>, None, {})
    ELSE Returned([s EXCEPT !.name = name], None, <<>>, None, {})

\* @requires_name(InvalidContainerName): the method body runs only on a
\* container whose name is set and non-empty
requires_name(s, body) ==
    IF ~Truthy(s.name)
    THEN Raised(s, "InvalidContainerName", <<s.name>>, <<>>, None, {})
    ELSE body

\* the loop of _fetch_cdn_data over response.getheaders(); error is the
\* ValueError of int() on a malformed x-ttl
RECURSIVE fetch_headers(_, _)
fetch_headers(s, hdrs) ==
    IF hdrs = <<>> THEN [self |-> s, error |-> FALSE]
    ELSE
      LET hdr == Head(hdrs)
          key == Lower(hdr[1])
          s1 == IF key = H_x_cdn_uri THEN [s EXCEPT !.cdn_uri = Some(hdr[2])] ELSE s
      IN  IF key = H_x_ttl /\ ParseInt(hdr[2]) = None
          THEN [self |-> s1, error |-> TRUE]
          ELSE
            LET s2 == IF key = H_x_ttl
                      THEN [s1 EXCEPT !.cdn_ttl = ParseInt(hdr[2])] ELSE s1
                s3 == IF key = H_x_user_agent_acl
                      THEN [s2 EXCEPT !.cdn_agent_acl = Some(hdr[2])] ELSE s2
                s4 == IF key = H_x_referrer_acl
                      THEN [s3 EXCEPT !.cdn_referer_acl = Some(hdr[2])] ELSE s3
            IN  fetch_headers(s4, Tail(hdrs))

\* _fetch_cdn_data
fetch_cdn_data(s, resp) ==
    requires_name(s,
      LET req == Request("cdn", "HEAD", <<s.name[1]>>, NoDict, {})
      IN  IF FetchSucceeded(resp.status)
          THEN LET r == fetch_headers(s, resp.headers)
               IN  IF r.error
                   THEN Raised(r.self, "ValueError", <<>>, <<req>>,
                               StatusLine(resp), {"cdn"})
                   ELSE Returned(r.self, None, <<req>>, StatusLine(resp), {"cdn"})
          ELSE Returned(s, None, <<req>>, StatusLine(resp), {"cdn"}))

\* __init__(connection, name, count, size)
init(enabled, name, count, size, resp) ==
    LET named == set_name(BlankSelf, name)
        s == [ named.self EXCEPT !.object_count = count, !.size_used = size,
                 !.cdn_uri = None, !.cdn_ttl = None,
                 !.cdn_agent_acl = None, !.cdn_referer_acl = None ]
    IN  IF named.outcome = "raise" THEN named
        ELSE IF enabled THEN fetch_cdn_data(s, resp)
        ELSE Returned(s, None, <<>>, None, {})

\* the headers make_public sends (lines 110-114)
make_public_hdrs(ttl, user_agent_acl, referer_acl) ==
    LET h0 == [k \in {"X-TTL", "X-CDN-Enabled"} |->
                 IF k = "X-TTL" THEN StrOfInt(ttl) ELSE S_True]
        h1 == IF Truthy(user_agent_acl)
              THEN DictSet(h0, "X-User-Agent-ACL", user_agent_acl[1]) ELSE h0
    IN  IF Truthy(referer_acl)
        THEN DictSet(h1, "X-Referrer-ACL", referer_acl[1]) ELSE h1

\* the loop of make_public over response.getheaders() (lines 121-123)
RECURSIVE publish_headers(_, _)
publish_headers(s, hdrs) ==
    IF hdrs = <<>> THEN s
    ELSE LET hdr == Head(hdrs)
         IN  publish_headers(
               IF Lower(hdr[1]) = H_x_cdn_uri
               THEN [s EXCEPT !.cdn_uri = Some(hdr[2])] ELSE s,
               Tail(hdrs))

\* make_public forgetting to store the ttl
make_public_store_NoTtl(s, ttl, user_agent_acl, referer_acl, hdrs) ==
    publish_headers(
      [s EXCEPT !.cdn_agent_acl = user_agent_acl,
                !.cdn_referer_acl = referer_acl],
      hdrs)

\* make_public marking the container published whatever the response says
make_public_store_AnyUri(s, ttl, user_agent_acl, referer_acl, hdrs) ==
    LET stored == publish_headers(
                    [s EXCEPT !.cdn_ttl = Some(ttl),
                              !.cdn_agent_acl = user_agent_acl,
                              !.cdn_referer_acl = referer_acl],
                    hdrs)
    IN  IF stored.cdn_uri = None THEN [stored EXCEPT !.cdn_uri = Some(<<>>)]
        ELSE stored

\* what make_public stores after a 2xx response (lines 118-123)
make_public_store(s, ttl, user_agent_acl, referer_acl, hdrs) ==
    publish_headers(
      [s EXCEPT !.cdn_ttl = Some(ttl), !.cdn_agent_acl = user_agent_acl,
                !.cdn_referer_acl = referer_acl],
      hdrs)

\* the request method make_public picks (lines 104-109)
make_public_method(s) == IF Truthy(s.cdn_uri) THEN "POST" ELSE "PUT"

\* make_public never falling back on the cached ACL
make_public_acl_ArgOnly(s, arg, cached) == arg

\* the ACL make_public resolves from its argument and the cache (lines 104-107)
make_public_acl(s, arg, cached) == IF Truthy(s.cdn_uri) THEN PyOr(arg, cached) ELSE arg

\* make_public storing its arguments before it looks at the status
make_public_StoreFirst(s, enabled, ttl, user_agent_acl, referer_acl, resp) ==
    requires_name(s,
      IF ~enabled THEN Raised(s, "CDNNotEnabled", <<>>, <<>>, None, {})
      ELSE
        LET ua == make_public_acl(s, user_agent_acl, s.cdn_agent_acl)
            ref == make_public_acl(s, referer_acl, s.cdn_referer_acl)
            req == Request("cdn", make_public_method(s), <<s.name[1]>>,
                           make_public_hdrs(ttl, ua, ref), {})
            stored == [s EXCEPT !.cdn_ttl = Some(ttl), !.cdn_agent_acl = ua,
                                !.cdn_referer_acl = ref]
        IN  IF MakePublicFailed(resp.status)
            THEN Raised(stored, "ResponseError", <<resp.status, resp.reason>>,
                        <<req>>, StatusLine(resp), {"cdn"})
            ELSE Returned(publish_headers(stored, resp.headers),
                          None, <<req>>, StatusLine(resp), {"cdn"}))

\* make_public(ttl, user_agent_acl, referer_acl)
make_public(s, enabled, ttl, user_agent_acl, referer_acl, resp) ==
    requires_name(s,
      IF ~enabled THEN Raised(s, "CDNNotEnabled", <<>>, <<>>, None, {})
      ELSE
        LET ua == make_public_acl(s, user_agent_acl, s.cdn_agent_acl)
            ref == make_public_acl(s, referer_acl, s.cdn_referer_acl)
            req == Request("cdn", make_public_method(s), <<s.name[1]>>,
                           make_public_hdrs(ttl, ua, ref), {})
        IN  IF MakePublicFailed(resp.status)
            THEN Raised(s, "ResponseError", <<resp.status, resp.reason>>,
                        <<req>>, StatusLine(resp), {"cdn"})
            ELSE Returned(make_public_store(s, ttl, ua, ref, resp.headers),
                          None, <<req>>, StatusLine(resp), {"cdn"}))

\* make_private dropping the published state
make_private_store_Clears(s) == [s EXCEPT !.cdn_uri = None, !.cdn_ttl = None]

\* what make_private stores after a 2xx response: nothing (line 136 ends it)
make_private_store(s) == s

\* make_private()
make_private(s, enabled, resp) ==
    requires_name(s,
      IF ~enabled THEN Raised(s, "CDNNotEnabled", <<>>, <<>>, None, {})
      ELSE
        LET req == Request("cdn", "POST", <<s.name[1]>>,
                           [k \in {"X-CDN-Enabled"} |-> S_False], {})
        IN  IF MakePrivateFailed(resp.status)
            THEN Raised(s, "ResponseError", <<resp.status, resp.reason>>,
                        <<req>>, StatusLine(resp), {"cdn"})
            ELSE Returned(make_private_store(s), None, <<req>>,
                          StatusLine(resp), {"cdn"}))

\* is_public testing the truth of cdn_uri, as make_public does
is_public_Truthy(s, enabled) ==
    IF ~enabled THEN Raised(s, "CDNNotEnabled", <<>>, <<>>, None, {})
    ELSE Returned(s, Some(Truthy(s.cdn_uri)), <<>>, None, {})

\* is_public()
is_public(s, enabled) ==
    IF ~enabled THEN Raised(s, "CDNNotEnabled", <<>>, <<>>, None, {})
    ELSE Returned(s, Some(s.cdn_uri # None), <<>>, None, {})

\* public_uri()
public_uri(s, enabled) ==
    requires_name(s,
      LET p == is_public(s, enabled)
      IN  IF p.outcome = "raise" THEN p
          ELSE IF ~p.ret[1] THEN Raised(s, "ContainerNotPublic", <<>>, <<>>, None, {})
          ELSE Returned(s, s.cdn_uri, <<>>, None, {}))

\* list_objects(**parms)
list_objects(s, parms, resp) ==
    requires_name(s,
      LET req == Request("storage", "GET", <<s.name[1]>>, NoDict, parms)
      IN  IF ListFailed(resp.status)
          THEN Raised(s, "ResponseError", <<resp.status, resp.reason>>,
                      <<req>>, StatusLine(resp), {})
          ELSE Returned(s, Some(SplitLines(resp.body)), <<req>>,
                        StatusLine(resp), {}))

\* delete_object(object_name)
delete_object(s, object_name, resp) ==
    requires_name(s,
      LET name == IF object_name.is_object THEN object_name.value.name
                  ELSE object_name.value
      IN  IF ~Truthy(name)
          THEN Raised(s, "InvalidObjectName", <<name>>, <<>>, None, {})
          ELSE
            LET req == Request("storage", "DELETE", <<s.name[1], name[1]>>,
                               NoDict, {})
            IN  IF DeleteFailed(resp.status)
                THEN Raised(s, "ResponseError", <<resp.status, resp.reason>>,
                            <<req>>, StatusLine(resp), {})
                ELSE Returned(s, None, <<req>>, StatusLine(resp), {}))

----------------------------------------------------------------------------
(* The state machine *)

\* what the caller saw of a call: the method, its arguments and its result
\* (uri_hdr: the response carried an x-cdn-uri header, in any case)
Call(op, args, r, uri_hdr) ==
    [ op |-> op, args |-> args, outcome |-> r.outcome, exc |-> r.exc,
      exc_args |-> r.exc_args, ret |-> r.ret, reqs |-> r.reqs,
      resp |-> r.resp, uri_hdr |-> uri_hdr ]

HasUriHeader(resp) ==
    \E i \in DOMAIN resp.headers : Lower(resp.headers[i][1]) = H_x_cdn_uri

Init ==
    /\ cdn_enabled \in BOOLEAN
    /\ exists = FALSE
    /\ self = BlankSelf
    /\ unread = {}
    /\ last = [ op |-> "none", args |-> <<>>, outcome |-> "return", exc |-> "",
                exc_args |-> <<>>, ret |-> None, reqs |-> <<>>, resp |-> None,
                uri_hdr |-> FALSE ]

\* Container(connection, name, count, size); a failed construction leaves
\* no object behind
Construct ==
    /\ ~exists
    /\ \E name \in NameArgs, cs \in CountSizeArgs, resp \in Responses :
         \E r \in {init(cdn_enabled, name, cs[1], cs[2], resp)} :
             /\ exists' = (r.outcome = "return")
             /\ self' = IF r.outcome = "return" THEN r.self ELSE BlankSelf
             /\ unread' = unread \cup r.left_unread
             /\ last' = Call("__init__", <<name, cs[1], cs[2]>>, r,
                             r.reqs # <<>> /\ HasUriHeader(resp))
    /\ UNCHANGED cdn_enabled

\* container.name = name
SetName ==
    /\ exists
    /\ \E name \in NameArgs :
         \E r \in {set_name(self, name)} :
             /\ self' = r.self
             /\ last' = Call("set_name", <<name>>, r, FALSE)
    /\ UNCHANGED <<cdn_enabled, exists, unread>>

MakePublic ==
    /\ exists
    /\ \E ttl \in TtlArgs, ua \in AgentAclArgs, ref \in RefererAclArgs,
          resp \in UpdateResponses :
         \E r \in {make_public(self, cdn_enabled, ttl, ua, ref, resp)} :
             /\ self' = r.self
             /\ unread' = unread \cup r.left_unread
             /\ last' = Call("make_public", <<ttl, ua, ref>>, r,
                             r.reqs # <<>> /\ HasUriHeader(resp))
    /\ UNCHANGED <<cdn_enabled, exists>>

MakePrivate ==
    /\ exists
    /\ \E resp \in UpdateResponses :
         \E r \in {make_private(self, cdn_enabled, resp)} :
             /\ self' = r.self
             /\ unread' = unread \cup r.left_unread
             /\ last' = Call("make_private", <<>>, r, FALSE)
    /\ UNCHANGED <<cdn_enabled, exists>>

IsPublic ==
    /\ exists
    /\ \E r \in {is_public(self, cdn_enabled)} :
           /\ self' = r.self
           /\ last' = Call("is_public", <<>>, r, FALSE)
    /\ UNCHANGED <<cdn_enabled, exists, unread>>

PublicUri ==
    /\ exists
    /\ \E r \in {public_uri(self, cdn_enabled)} :
           /\ self' = r.self
           /\ last' = Call("public_uri", <<>>, r, FALSE)
    /\ UNCHANGED <<cdn_enabled, exists, unread>>

ListObjects ==
    /\ exists
    /\ \E parms \in ParmArgs, resp \in StorageResponses :
         \E r \in {list_objects(self, parms, resp)} :
             /\ self' = r.self
             /\ unread' = unread \cup r.left_unread
             /\ last' = Call("list_objects", <<parms>>, r, FALSE)
    /\ UNCHANGED <<cdn_enabled, exists>>

DeleteObject ==
    /\ exists
    /\ \E object_name \in ObjectArgs, resp \in StorageResponses :
         \E r \in {delete_object(self, object_name, resp)} :
             /\ self' = r.self
             /\ unread' = unread \cup r.left_unread
             /\ last' = Call("delete_object", <<object_name>>, r, FALSE)
    /\ UNCHANGED <<cdn_enabled, exists>>

Next ==
    \/ Construct
    \/ SetName
    \/ MakePublic
    \/ MakePrivate
    \/ IsPublic
    \/ PublicUri
    \/ ListObjects
    \/ DeleteObject

Spec == Init /\ [][Next]_vars

----------------------------------------------------------------------------
(* Properties *)

Is2xx(status) == status \in 200..299

\* the most recent call was `op` and it returned
ReturnedFrom(op) == last.op = op /\ last.outcome = "return"

\* the step just taken was a call of `op` (every action stamps last.op)
StepOf(op) == last'.op = op

\* what is_public() would answer in a state
IsPublicNow(s, enabled) == is_public(s, enabled).ret = Some(TRUE)

\* C1, as claimed: once make_public(ttl) has returned, cdn_ttl = ttl and
\* is_public() is true, whatever the cache held before and whatever headers
\* the 2xx response carried.
C1_PublicAfterAnyResponse ==
    ReturnedFrom("make_public") =>
        /\ self.cdn_ttl = Some(last.args[1])
        /\ IsPublicNow(self, cdn_enabled)

\* C1, amended: once make_public(ttl) has returned, cdn_ttl = ttl, and
\* is_public() is true exactly when cdn_uri was already set before the call
\* or the 2xx response carried an x-cdn-uri header.
C1_PublicIfUriReported ==
    [][ (StepOf("make_public") /\ last'.outcome = "return") =>
          /\ self'.cdn_ttl = Some(last'.args[1])
          /\ IsPublicNow(self', cdn_enabled')
               <=> (self.cdn_uri # None \/ last'.uri_hdr) ]_vars

\* C1 witness: a create (PUT) whose 2xx response reported the uri
C1_Witness ==
    /\ ReturnedFrom("make_public")
    /\ last.reqs[1].method = "PUT"
    /\ last.uri_hdr
    /\ self.cdn_ttl = Some(3600)
    /\ IsPublicNow(self, cdn_enabled)

C3_CdnDisabledFails ==
    ~cdn_enabled =>
        /\ last.op \in {"make_public", "make_private", "is_public"}
             => (last.exc = "CDNNotEnabled" /\ last.reqs = <<>>)
        /\ last.op = "__init__" => last.reqs = <<>>

\* C4: make_public, make_private, list_objects and delete_object issue one
\* request; on a status outside 200..299 they raise ResponseError(status,
\* reason) of that response, on a status inside they raise no ResponseError;
\* the metadata fetch of construction raises nothing on a non-2xx status.
C4_ResponseError ==
    last.resp # None =>
        LET status == last.resp[1][1]
            reason == last.resp[1][2]
        IN  /\ last.op \in {"make_public", "make_private", "list_objects",
                            "delete_object"} =>
                 /\ Len(last.reqs) = 1
                 /\ ~Is2xx(status) =>
                      /\ last.outcome = "raise"
                      /\ last.exc = "ResponseError"
                      /\ last.exc_args = <<status, reason>>
                 /\ Is2xx(status) => last.exc # "ResponseError"
            /\ (last.op = "__init__" /\ ~Is2xx(status))
                 => last.outcome = "return"

\* C4 witness: delete_object met a 300 and raised it
C4_Witness ==
    /\ last.op = "delete_object"
    /\ last.exc = "ResponseError"
    /\ last.exc_args = <<300, "Multiple Choices">>

\* C5, as claimed: whatever calls have been made, every response handed to
\* the container has been read.
C5_AllResponsesRead == unread = {}

\* C6, as claimed, for a container with a name: public_uri returns the
\* cached cdn_uri when the container is public, fails with
\* ContainerNotPublic whenever cdn_uri is unknown (CDN disabled included),
\* and issues no request.
C6_NotPublicWhenUnknown ==
    (last.op = "public_uri" /\ Truthy(self.name)) =>
        /\ last.reqs = <<>>
        /\ self.cdn_uri = None => last.exc = "ContainerNotPublic"
        /\ self.cdn_uri # None =>
             (last.outcome = "return" /\ last.ret = self.cdn_uri)

\* C6, amended: public_uri issues no request; it fails with the naming
\* error on an empty name, else with CDNNotEnabled when the connection has
\* CDN disabled, else with ContainerNotPublic when cdn_uri is None, and
\* otherwise returns the cached cdn_uri.
C6_PublicUri ==
    last.op = "public_uri" =>
        /\ last.reqs = <<>>
        /\ IF ~Truthy(self.name) THEN last.exc = "InvalidContainerName"
           ELSE IF ~cdn_enabled THEN last.exc = "CDNNotEnabled"
           ELSE IF self.cdn_uri = None THEN last.exc = "ContainerNotPublic"
           ELSE last.outcome = "return" /\ last.ret = self.cdn_uri

\* C6 witness: CDN enabled, nothing published, public_uri refused
C6_Witness ==
    /\ last.op = "public_uri"
    /\ cdn_enabled
    /\ self.cdn_uri = None
    /\ last.exc = "ContainerNotPublic"

\* C7: a make_private() that succeeds leaves every attribute as it was, so
\* is_public() answers as before.
C7_MakePrivateKeepsCache ==
    [][ (StepOf("make_private") /\ last'.outcome = "return") =>
          /\ self' = self
          /\ IsPublicNow(self', cdn_enabled') = IsPublicNow(self, cdn_enabled)
      ]_vars

\* C7 witness: a published container was made private and still holds its
\* uri and ttl
C7_Witness ==
    /\ ReturnedFrom("make_private")
    /\ self.cdn_uri = Some(S_u)
    /\ self.cdn_ttl = Some(3600)

\* C8, as claimed: a constructed Container's name is non-empty and has no
\* '/'; construction with an empty, missing or '/' name fails with
\* InvalidContainerName before any request, CDN enabled or not.
C8_NameValid ==
    /\ exists => (Truthy(self.name) /\ ~HasSlash(self.name))
    /\ (last.op = "__init__"
          /\ (~Truthy(last.args[1]) \/ HasSlash(last.args[1])))
         => (last.exc = "InvalidContainerName" /\ last.reqs = <<>>)

\* C9, as claimed (step by step): cdn_uri is non-null iff the container was
\* published (a make_public that succeeded, or a metadata fetch that
\* reported a uri) and not since made private by a make_private that
\* succeeded; no other call changes whether it is set.
C9_UriIffPublished ==
    [][ /\ StepOf("__init__") /\ exists' =>
              ((self'.cdn_uri # None) <=>
                 (last'.uri_hdr /\ Is2xx(last'.resp[1][1])))
        /\ (StepOf("make_public") /\ last'.outcome = "return")
              => self'.cdn_uri # None
        /\ (StepOf("make_private") /\ last'.outcome = "return")
              => self'.cdn_uri = None
        /\ (last'.op \in {"make_public", "make_private"} /\ last'.outcome = "raise")
              => ((self'.cdn_uri = None) <=> (self.cdn_uri = None)) ]_vars

\* C9, amended: cdn_uri is non-null iff some 2xx response, to the metadata
\* fetch of construction or to a make_public, carried an x-cdn-uri header:
\* construction sets it iff its fetch did, a make_public that succeeds
\* sets it iff it was set or its response did, and no make_private and no
\* failed call changes it.
C9_UriIffReported ==
    [][ /\ StepOf("__init__") /\ exists' =>
              ((self'.cdn_uri # None) <=>
                 (last'.reqs # <<>> /\ last'.uri_hdr /\ Is2xx(last'.resp[1][1])))
        /\ (StepOf("make_public") /\ last'.outcome = "return")
              => ((self'.cdn_uri # None) <=> (self.cdn_uri # None \/ last'.uri_hdr))
        /\ StepOf("make_private") => self'.cdn_uri = self.cdn_uri
        /\ (StepOf("make_public") /\ last'.outcome = "raise")
              => self'.cdn_uri = self.cdn_uri ]_vars

\* C9 witness: a make_public succeeded, its response named no uri, and
\* cdn_uri is still null
C9_Witness ==
    /\ ReturnedFrom("make_public")
    /\ ~last.uri_hdr
    /\ self.cdn_uri = None

\* C10: a call of make_public, make_private, is_public, public_uri,
\* list_objects or delete_object that raises leaves every attribute as it
\* was before the call.
C10_RaiseKeepsCache ==
    [][ (last'.op \in {"make_public", "make_private", "is_public",
                       "public_uri", "list_objects", "delete_object"}
           /\ last'.outcome = "raise")
          => self' = self ]_vars

\* C10 witness: a make_public with a new ttl met a non-2xx status and the
\* cached ttl is not the one it asked for
C10_Witness ==
    /\ last.op = "make_public"
    /\ last.exc = "ResponseError"
    /\ last.args[1] = 3600
    /\ self.cdn_ttl = Some(60)

====
